---- MODULE Spec2Model ----
(***************************************************************************)
(* Brightspace-GPT backend: the OAuth login flow (app/api/auth.py), the    *)
(* provider-token store and the session tokens (app/services/              *)
(* auth_service.py) over the User / BrightspaceToken tables                *)
(* (app/models/user.py).                                                   *)
(*                                                                         *)
(* Every request handler is an asyncio coroutine: the code between two     *)
(* awaits runs without interruption, and at every await (an HTTP call to   *)
(* the provider, a database round trip) other requests may run.  One       *)
(* action of the model is one such uninterrupted piece of one handler.     *)
(* Time is counted in whole seconds.                                       *)
(***************************************************************************)
EXTENDS Integers, Sequences, FiniteSets, TLC

VARIABLES
    now,            \* the wall clock (datetime.now / datetime.utcnow)
    oauth_states,   \* auth.py: the keys of the module-level dict oauth_states
    users,          \* table users: id -> row
    tokens,         \* table brightspace_tokens: user_id -> the rows of that user
    pc,             \* per request slot: where its handler is suspended
    loc,            \* per request slot: the handler's local variables, and the
                    \* provider calls it has made
    last,           \* the request that finished last, and its response
    jwt_in,         \* session-token check: the token under verification
    jwt_out         \* session-token check: what verify_jwt_token returned

vars == <<now, oauth_states, users, tokens, pc, loc, last, jwt_in, jwt_out>>

----------------------------------------------------------------------------
\* Bounds of the model.
MaxTime == 1

\* Python's None, where the value is otherwise a string.
None == "None"
\* Python's None, where the value is otherwise a number: <<>>, and <<n>> for n.
NoneT == <<>>
Some(n) == <<n>>
Val(o) == o[1]

\* The request slots: two handlers can be in progress at once.
Req == {"r1", "r2"}

\* Values of the model.
States == {"s1", "s2"}
UserIds == {"u1", "u2"}
AccessTokens == {"at1", "at2"}
RefreshTokens == {"rt1"}
Missing == "<missing>"

\* config.py
JWT_SECRET == "dev_secret_key"
JWT_EXPIRATION_HOURS == 24
JwtLifetime == JWT_EXPIRATION_HOURS * 3600

\* Python truthiness of an optional string, and of an optional number.
Truthy(x) == x \notin {None, ""}
TruthyT(o) == o # NoneT /\ Val(o) # 0

----------------------------------------------------------------------------
(* Session tokens: jose.jwt.encode / jose.jwt.decode with HS256.           *)
(* A compact JWS is header.payload.signature.  It is modelled by its       *)
(* payload (the claims), the MAC value its signature segment decodes to,   *)
(* and the two unused low bits of the last base64url character of the      *)
(* 43-character signature segment (32 bytes = 256 bits in 43 * 6 = 258).   *)

\* HMAC-SHA256 as an ideal MAC: its value names the key and the message
\* (the signing input: header and payload).
HMAC(key, header, payload) == [key |-> key, header |-> header, payload |-> payload]

\* config.py: JWT_ALGORITHM
JWT_ALGORITHM == "HS256"

\* base64url encoding of the signature writes the unused bits as 0;
\* base64.urlsafe_b64decode discards them (jose.utils.base64url_decode).
base64url_encode(mac) == [mac |-> mac, pad |-> 0]
base64url_decode(seg) == seg.mac

NoClaims == [sub |-> None, email |-> None, brightspace_user_id |-> None,
             exp |-> 0, iat |-> 0]
NoSegment == [mac |-> HMAC("", "", NoClaims), pad |-> 0]

\* A string that is no compact JWS: "" (from the header "Bearer ") or other text.
MalformedToken(text) ==
    [form |-> text, header |-> "", payload |-> NoClaims, sig |-> NoSegment]

jwt_encode(claims, key, algorithm) ==
    [form |-> "jws", header |-> algorithm, payload |-> claims,
     sig |-> base64url_encode(HMAC(key, algorithm, claims))]

\* jose: JWTError for a malformed token, an algorithm that is not allowed
\* or a signature mismatch, ExpiredSignatureError (a JWTError) when
\* exp < now (jose.jwt._validate_exp); the claims otherwise.
jwt_decode(token, key, algorithms, t) ==
    IF token.form # "jws" THEN [ok |-> FALSE, error |-> "JWTError", claims |-> NoClaims]
    ELSE IF token.header \notin algorithms
         THEN [ok |-> FALSE, error |-> "JWTError", claims |-> NoClaims]
    ELSE IF base64url_decode(token.sig) # HMAC(key, token.header, token.payload)
         THEN [ok |-> FALSE, error |-> "JWTError", claims |-> NoClaims]
    ELSE IF token.payload.exp < t
         THEN [ok |-> FALSE, error |-> "ExpiredSignatureError", claims |-> NoClaims]
    ELSE [ok |-> TRUE, error |-> "", claims |-> token.payload]

\* create_jwt_token with the lifetime counted in minutes: the variant C28
\* must tell from create_jwt_token.
create_jwt_token_in_minutes(user, t) ==
    jwt_encode([sub |-> user.id, email |-> user.email,
                brightspace_user_id |-> user.brightspace_user_id,
                exp |-> t + JWT_EXPIRATION_HOURS * 60, iat |-> t],
               JWT_SECRET, JWT_ALGORITHM)

\* AuthService.create_jwt_token: exp = utcnow + JWT_EXPIRATION_HOURS, iat = utcnow.
\* `user` is a User row.
create_jwt_token(user, t) ==
    jwt_encode([sub |-> user.id, email |-> user.email,
                brightspace_user_id |-> user.brightspace_user_id,
                exp |-> t + JwtLifetime, iat |-> t],
               JWT_SECRET, JWT_ALGORITHM)

\* AuthService.verify_jwt_token: the payload, or None on any JWTError.
\* The result is <<claims>> or <<>> (None).
verify_jwt_token(token, t) ==
    LET d == jwt_decode(token, JWT_SECRET, {JWT_ALGORITHM}, t)
    IN  IF d.ok THEN <<d.claims>> ELSE <<>>

----------------------------------------------------------------------------
(* The BrightspaceToken row and the provider's token responses.            *)

\* is_expired with a record that has no expiry counted as expired: the
\* variant C5 must tell from is_expired.
is_expired_without_expiry(rec, t) ==
    IF rec.expires_at = NoneT THEN TRUE ELSE t >= Val(rec.expires_at)

\* BrightspaceToken.is_expired
is_expired(rec, t) ==
    IF rec.expires_at = NoneT THEN FALSE ELSE t >= Val(rec.expires_at)

\* The JSON body of a 2xx answer of the token endpoint.  access_token is
\* Missing in a body that lacks the key.
TokenBodies ==
    { [access_token |-> "at1", refresh_token |-> "rt1", expires_in |-> Some(1)],
      [access_token |-> "at2", refresh_token |-> "rt1", expires_in |-> Some(1)],
      [access_token |-> "at2", refresh_token |-> None, expires_in |-> Some(1)],
      [access_token |-> "at1", refresh_token |-> None, expires_in |-> NoneT],
      [access_token |-> Missing, refresh_token |-> None, expires_in |-> NoneT] }

NoBody == [access_token |-> Missing, refresh_token |-> None, expires_in |-> NoneT]

\* What a provider call can come back with: a 2xx body, a non-2xx status
\* (httpx.HTTPStatusError), or any other failure (transport, unparsable JSON).
TokenAnswers ==
    [kind : {"ok"}, body : TokenBodies]
    \cup [kind : {"http_status", "transport"}, body : {NoBody}]

\* expires_at_of with expires_in = 0 counted as a lifetime of 0 seconds: the
\* variant C33 must tell from expires_at_of.
expires_at_of_zero_counted(token_data, t) ==
    IF token_data.expires_in # NoneT THEN Some(t + Val(token_data.expires_in)) ELSE NoneT

\* _save_brightspace_tokens, lines 222-226: the absolute expiry.
expires_at_of(token_data, t) ==
    IF TruthyT(token_data.expires_in) THEN Some(t + Val(token_data.expires_in)) ELSE NoneT

\* _save_brightspace_tokens, lines 228-246: the column values written (the
\* same for the update of a found row and for a new row).
token_fields(user_id, token_data, t) ==
    [user_id |-> user_id,
     access_token |-> token_data.access_token,
     refresh_token |-> token_data.refresh_token,
     expires_at |-> expires_at_of(token_data, t)]

NoRow == [user_id |-> None, access_token |-> Missing, refresh_token |-> None,
          expires_at |-> NoneT]


----------------------------------------------------------------------------
(* The tables.  users is the set of User rows; tokens is the table         *)
(* brightspace_tokens in insertion order (a row's position stands for its  *)
(* primary key).  No operation deletes a row of either table.              *)

\* The answers of the provider's whoami endpoint.  Name is what line 177
\* makes of FirstName and LastName: f"{first} {last}".strip().
IdentityBodies ==
    { [Identifier |-> "b1", EmailAddress |-> "e1", Name |-> "n1"],
      [Identifier |-> "b1", EmailAddress |-> None, Name |-> ""],
      [Identifier |-> "b2", EmailAddress |-> "e2", Name |-> "n2"] }

NoInfo == [Identifier |-> None, EmailAddress |-> None, Name |-> ""]

IdentityAnswers ==
    [kind : {"ok"}, body : IdentityBodies]
    \cup [kind : {"http_status", "transport"}, body : {NoInfo}]

\* A User row present before the server starts (the tables outlive the process).
User1 == [id |-> "u1", email |-> "e1", full_name |-> "n1",
          brightspace_user_id |-> "b1", last_login_at |-> NoneT]

NoUser == [id |-> None, email |-> None, full_name |-> "",
           brightspace_user_id |-> None, last_login_at |-> NoneT]

\* select(BrightspaceToken).where(BrightspaceToken.user_id == user_id):
\* the positions of the matching rows.  user_id == None compiles to
\* IS NULL, and the column is NOT NULL, so None matches no row.
TokenRowsOf(user_id) ==
    { i \in 1..Len(tokens) : user_id # None /\ tokens[i].user_id = user_id }

\* select(User).where(User.brightspace_user_id == brightspace_user_id)
UsersByBrightspaceId(bsid) == { u \in users : u.brightspace_user_id = bsid }

\* str(x) of line 175: the text of an identifier, and the text "None" for
\* None (written apart from the None of the model).
NoneAsText == "text:None"
str(x) == IF x = None THEN NoneAsText ELSE x

\* user_after_lookup with the name of a found user overwritten by the
\* identity's name even when that is empty: the variant C30 must tell from
\* user_after_lookup.
user_after_lookup_overwriting(info, found, t) ==
    IF found # {}
    THEN LET user == CHOOSE u \in found : TRUE
         IN  [id |-> user.id,
              email |-> IF Truthy(info.EmailAddress) THEN info.EmailAddress ELSE user.email,
              full_name |-> info.Name,
              brightspace_user_id |-> user.brightspace_user_id,
              last_login_at |-> Some(t)]
    ELSE [id |-> None,
          email |-> info.EmailAddress,
          full_name |-> info.Name,
          brightspace_user_id |-> str(info.Identifier),
          last_login_at |-> Some(t)]

\* create_or_update_user, lines 175-200: the User object after the lookup.
\* A new User has no id yet: the column default (uuid4) is applied by the
\* INSERT, when the session is flushed.
user_after_lookup(info, found, t) ==
    IF found # {}
    THEN LET user == CHOOSE u \in found : TRUE
         IN  [id |-> user.id,
              email |-> IF Truthy(info.EmailAddress) THEN info.EmailAddress ELSE user.email,
              full_name |-> IF Truthy(info.Name) THEN info.Name ELSE user.full_name,
              brightspace_user_id |-> user.brightspace_user_id,
              last_login_at |-> Some(t)]
    ELSE [id |-> None,
          email |-> info.EmailAddress,
          full_name |-> info.Name,
          brightspace_user_id |-> str(info.Identifier),
          last_login_at |-> Some(t)]

\* The constraints of table users at the flush of `user` (models/user.py
\* lines 18-23): email NOT NULL and unique, brightspace_user_id unique.
UserConstraintsOK(user, is_new) ==
    LET others == IF is_new THEN users ELSE { u \in users : u.id # user.id }
    IN  /\ user.email # None
        /\ \A u \in others : u.email # user.email
        /\ \A u \in others : u.brightspace_user_id # user.brightspace_user_id
        /\ is_new => (UserIds \ { u.id : u \in users }) # {}

\* TokenConstraintsOK with a nullable user_id: the variant C15 must tell
\* from TokenConstraintsOK.
TokenConstraintsOK_nullable_owner(rec) == rec.access_token \notin {None, Missing}

\* The constraints of table brightspace_tokens at the flush of a row
\* (models/user.py lines 49-52): user_id and access_token NOT NULL.
TokenConstraintsOK(rec) == rec.user_id # None /\ rec.access_token \notin {None, Missing}

\* The id of `user` after its flush: a new row gets the column default, uuid4.
NewUserId(user, is_new) ==
    IF is_new THEN CHOOSE i \in UserIds : i \notin { u.id : u \in users } ELSE user.id

\* The users table after the flush of `user`.
UsersAfter(user, is_new) ==
    { u \in users : u.id # user.id } \cup {[user EXCEPT !.id = NewUserId(user, is_new)]}

\* The tokens table after the flush of `rec`: row 0 is a new row.
TokensAfter(rec, row) ==
    IF row = 0 THEN Append(tokens, rec) ELSE [tokens EXCEPT ![row] = rec]

----------------------------------------------------------------------------
(* Requests.                                                               *)

NoCalls == [exchange |-> 0, identity |-> 0, refresh |-> 0]

EmptyLoc ==
    [op |-> "none", code |-> None, state |-> None, error |-> None,
     token_data |-> NoBody, info |-> NoInfo,
     user |-> NoUser, is_new |-> FALSE, rec |-> NoRow, pend |-> NoRow, row |-> 0,
     sub |-> None, ret |-> None, jwt |-> MalformedToken(""), calls |-> NoCalls,
     header |-> [scheme |-> "absent", token |-> MalformedToken("")], at |-> 0]

\* schemas/auth.py UserResponse, as refresh_token and get_current_user fill
\* it.  is_verified, preferences and created_at are the row's own values.
UserResponse(user) ==
    [id |-> user.id, email |-> user.email, full_name |-> user.full_name,
     brightspace_user_id |-> user.brightspace_user_id]

NoResp == [status |-> 0, error |-> "", location |-> "", authenticated |-> FALSE,
           brightspace_connected |-> FALSE, user_id |-> None, state |-> None,
           user |-> UserResponse(NoUser), message |-> ""]

\* raise HTTPException(status_code, detail)
HTTPException(status_code, detail) ==
    [NoResp EXCEPT !.status = status_code, !.error = detail]

\* auth.py, lines 139-151 and 177-185: the user payload (the new session
\* token of /token/refresh is the handler's jwt).
UserBody(user) == [NoResp EXCEPT !.status = 200, !.user = UserResponse(user)]

\* auth.py, line 200.
LogoutBody == [NoResp EXCEPT !.status = 200, !.message = "Logged out successfully"]

\* FastAPI's answer to an exception that leaves the handler.
InternalServerError(exc) == [NoResp EXCEPT !.status = 500, !.error = exc]

\* auth.py, lines 213, 219 and 224-228.
StatusBody(authenticated, connected, user_id) ==
    [NoResp EXCEPT !.status = 200, !.authenticated = authenticated,
                   !.brightspace_connected = connected, !.user_id = user_id]

\* auth.py, lines 36-40.
LoginBody(state) == [NoResp EXCEPT !.status = 200, !.state = state]

\* The payload of a session token of the user with id user_id.
ClaimsOf(user_id, exp) ==
    [sub |-> user_id, email |-> "e1", brightspace_user_id |-> "b1",
     exp |-> exp, iat |-> exp - JwtLifetime]

\* The Authorization headers of the model: no header, another scheme, and
\* Bearer with a session token of u1, one that expires at second 1, one
\* whose subject has no row, one signed with another key, and "Bearer ".
SessionTokens ==
    { jwt_encode(ClaimsOf("u1", JwtLifetime), JWT_SECRET, JWT_ALGORITHM),
      jwt_encode(ClaimsOf("u1", 1), JWT_SECRET, JWT_ALGORITHM),
      jwt_encode(ClaimsOf("u2", JwtLifetime), JWT_SECRET, JWT_ALGORITHM),
      jwt_encode(ClaimsOf("u1", JwtLifetime), "other_key", JWT_ALGORITHM),
      MalformedToken("") }

Headers ==
    [scheme : {"absent", "Basic"}, token : {MalformedToken("")}]
    \cup [scheme : {"Bearer"}, token : SessionTokens]


----------------------------------------------------------------------------
(* Steps common to the handlers.                                           *)

\* Slot r is free for a new request.  Of two free slots the first is
\* used: which slot serves a request changes nothing the handlers do.
Idle(r) == pc[r] = "idle" /\ (r = "r2" => pc["r1"] # "idle")

\* A handler starts in slot r: its locals and its call counts are fresh.
Start(r, op) == [EmptyLoc EXCEPT !.op = op]

\* The handler of slot r ends at source line `exit` with `response`: its
\* locals are gone and the slot is free.  `last` keeps, of the request that
\* finished last: the handler, the line it ended at, its response, the
\* provider calls it made, the user it served, the token record
\* get_valid_brightspace_token loaded and what it returned, and the session
\* token the handler made; of a /status, /me or /token/refresh request
\* also the Authorization header, and of the latter two the second it was
\* read at; of a callback also its query parameters and the identity the
\* provider answered with.
Finish(r, l, exit, response) ==
    /\ pc' = [pc EXCEPT ![r] = "idle"]
    /\ loc' = [loc EXCEPT ![r] = EmptyLoc]
    /\ last' = [op |-> l.op, exit |-> exit, resp |-> response, calls |-> l.calls,
                sub |-> l.sub, rec |-> l.rec, ret |-> l.ret, jwt |-> l.jwt,
                header |-> l.header, at |-> l.at, info |-> l.info,
                query |-> [code |-> l.code, state |-> l.state, error |-> l.error]]

\* auth.py imports no name `settings` (lines 5-14), so every
\* f"{settings.APP_URL}/..." of brightspace_callback raises NameError.  Inside
\* the try block the NameError of line 100 is caught by `except Exception`,
\* whose own f-string (line 109) raises it again; so does the handler of
\* AuthenticationError (line 105).  The NameError leaves the handler.
RedirectResponse(r, l, exit) == Finish(r, l, exit, InternalServerError("NameError"))

Goto(r, l, label) ==
    /\ pc' = [pc EXCEPT ![r] = label]
    /\ loc' = [loc EXCEPT ![r] = l]
    /\ UNCHANGED last

----------------------------------------------------------------------------
(* The clock.                                                              *)

Tick ==
    /\ now < MaxTime
    /\ now' = now + 1
    /\ UNCHANGED <<oauth_states, users, tokens, pc, loc, last, jwt_in, jwt_out>>

----------------------------------------------------------------------------
(* GET /login: initiate_login, with AuthService.generate_auth_url.  The    *)
(* handler has no await.  secrets.token_urlsafe(32) is any state.          *)

generate_auth_url(E) == E.states

\* Login with the state cache replaced by the new entry: the variant C22
\* must tell from Login.
Login_replacing(r, E) ==
    /\ Idle(r)
    /\ \E state \in generate_auth_url(E) :
         /\ oauth_states' = {state}
         /\ Finish(r, [Start(r, "login") EXCEPT !.state = state], "auth.py:36",
                   LoginBody(state))
    /\ UNCHANGED <<now, users, tokens, jwt_in, jwt_out>>

\* auth.py lines 30-40: the state is registered and returned.

Login(r, E) ==
    /\ Idle(r)
    /\ \E state \in generate_auth_url(E) :
         /\ oauth_states' = oauth_states \cup {state}
         /\ Finish(r, [Start(r, "login") EXCEPT !.state = state], "auth.py:36",
                   LoginBody(state))
    /\ UNCHANGED <<now, users, tokens, jwt_in, jwt_out>>

----------------------------------------------------------------------------
(* GET /brightspace/callback: brightspace_callback.                        *)

\* Lines 58-83: the parameter checks, up to the await of the token exchange.
CallbackBegin(r, E) ==
    /\ Idle(r)
    /\ \E q \in E.params :
         LET l == [Start(r, "callback") EXCEPT !.code = q.code, !.state = q.state,
                                               !.error = q.error]
         IN  IF Truthy(q.error)
             THEN RedirectResponse(r, l, "auth.py:66")
             ELSE IF ~Truthy(q.code) \/ ~Truthy(q.state)
             THEN RedirectResponse(r, l, "auth.py:72")
             ELSE IF q.state \notin oauth_states
             THEN RedirectResponse(r, l, "auth.py:78")
             ELSE Goto(r, [l EXCEPT !.calls.exchange = 1], "cb_exchange")
    /\ UNCHANGED <<now, oauth_states, users, tokens, jwt_in, jwt_out>>

\* CallbackExchange with a failed exchange call made once more: the variant
\* C27 must tell from CallbackExchange.
CallbackExchange_retrying(r, E) ==
    /\ pc[r] = "cb_exchange"
    /\ \E ans \in E.exchange :
         IF ans.kind # "ok"
         THEN IF loc[r].calls.exchange < 2
              THEN Goto(r, [loc[r] EXCEPT !.calls.exchange = @ + 1], "cb_exchange")
              ELSE RedirectResponse(r, loc[r], "auth.py:105")
         ELSE IF ans.body.access_token = Missing
         THEN RedirectResponse(r, loc[r], "auth.py:109")
         ELSE Goto(r, [loc[r] EXCEPT !.token_data = ans.body, !.calls.identity = 1],
                   "cb_identity")
    /\ UNCHANGED <<now, oauth_states, users, tokens, jwt_in, jwt_out>>

\* exchange_code_for_tokens returns or raises; lines 83-88, up to the await
\* of the whoami call.  token_data["access_token"] raises KeyError when the
\* body lacks the key.
CallbackExchange(r, E) ==
    /\ pc[r] = "cb_exchange"
    /\ \E ans \in E.exchange :
         IF ans.kind # "ok"
         THEN RedirectResponse(r, loc[r], "auth.py:105")
         ELSE IF ans.body.access_token = Missing
         THEN RedirectResponse(r, loc[r], "auth.py:109")
         ELSE Goto(r, [loc[r] EXCEPT !.token_data = ans.body, !.calls.identity = 1],
                   "cb_identity")
    /\ UNCHANGED <<now, oauth_states, users, tokens, jwt_in, jwt_out>>

\* get_user_info_from_brightspace returns or raises; create_or_update_user
\* lines 175-181, up to the await of the user lookup.
CallbackIdentity(r, E) ==
    /\ pc[r] = "cb_identity"
    /\ \E ans \in E.identity :
         IF ans.kind # "ok"
         THEN RedirectResponse(r, loc[r], "auth.py:105")
         ELSE Goto(r, [loc[r] EXCEPT !.info = ans.body], "cb_select_user")
    /\ UNCHANGED <<now, oauth_states, users, tokens, jwt_in, jwt_out>>

\* create_or_update_user lines 181-203 and _save_brightspace_tokens lines
\* 218-219: the user lookup answers, the User object is updated or made,
\* up to the await of the token lookup.
CallbackSelectUser(r) ==
    /\ pc[r] = "cb_select_user"
    /\ LET found == UsersByBrightspaceId(str(loc[r].info.Identifier))
       IN  Goto(r, [loc[r] EXCEPT !.user = user_after_lookup(loc[r].info, found, now),
                                  !.is_new = (found = {})],
                "cb_select_token")
    /\ UNCHANGED <<now, oauth_states, users, tokens, jwt_in, jwt_out>>

\* _save_brightspace_tokens lines 219-246 with user_id = user.id as it was
\* at line 203 (None for a new User), and create_or_update_user line 205,
\* up to the await of the commit.
CallbackSelectToken(r) ==
    /\ pc[r] = "cb_select_token"
    /\ LET rows == TokenRowsOf(loc[r].user.id)
           rec == token_fields(loc[r].user.id, loc[r].token_data, now)
       IN  IF Cardinality(rows) > 1
           THEN RedirectResponse(r, loc[r], "auth.py:109")
           ELSE Goto(r, [loc[r] EXCEPT !.pend = rec,
                                       !.row = IF rows = {} THEN 0 ELSE CHOOSE i \in rows : TRUE],
                     "cb_commit")
    /\ UNCHANGED <<now, oauth_states, users, tokens, jwt_in, jwt_out>>

\* CallbackCommit on tables without constraints: the variant C13 must tell
\* from CallbackCommit.
CallbackCommit_unconstrained(r) ==
    /\ pc[r] = "cb_commit"
    /\ users' = UsersAfter(loc[r].user, loc[r].is_new)
    /\ tokens' = TokensAfter(loc[r].pend, loc[r].row)
    /\ Goto(r, [loc[r] EXCEPT !.user.id = NewUserId(loc[r].user, loc[r].is_new)],
            "cb_refresh")
    /\ UNCHANGED <<now, oauth_states, jwt_in, jwt_out>>

\* CallbackCommit with a failed commit passed over: the variant C23 must
\* tell from CallbackCommit.
CallbackCommit_swallowing(r) ==
    /\ pc[r] = "cb_commit"
    /\ IF UserConstraintsOK(loc[r].user, loc[r].is_new) /\ TokenConstraintsOK(loc[r].pend)
       THEN /\ users' = UsersAfter(loc[r].user, loc[r].is_new)
            /\ tokens' = TokensAfter(loc[r].pend, loc[r].row)
            /\ Goto(r, [loc[r] EXCEPT !.user.id = NewUserId(loc[r].user, loc[r].is_new)],
                    "cb_refresh")
       ELSE /\ Goto(r, loc[r], "cb_refresh")
            /\ UNCHANGED <<users, tokens>>
    /\ UNCHANGED <<now, oauth_states, jwt_in, jwt_out>>

\* db.commit() of create_or_update_user: the User and the token row are
\* flushed and committed in one transaction; a constraint violation
\* (IntegrityError) rolls both back.  Up to the await of db.refresh(user).
CallbackCommit(r) ==
    /\ pc[r] = "cb_commit"
    /\ IF UserConstraintsOK(loc[r].user, loc[r].is_new) /\ TokenConstraintsOK(loc[r].pend)
       THEN /\ users' = UsersAfter(loc[r].user, loc[r].is_new)
            /\ tokens' = TokensAfter(loc[r].pend, loc[r].row)
            /\ Goto(r, [loc[r] EXCEPT !.user.id = NewUserId(loc[r].user, loc[r].is_new)],
                    "cb_refresh")
       ELSE /\ RedirectResponse(r, loc[r], "auth.py:109")
            /\ UNCHANGED <<users, tokens>>
    /\ UNCHANGED <<now, oauth_states, jwt_in, jwt_out>>

\* Lines 94-110 after db.refresh(user): the session token is made, the
\* state is removed from oauth_states, and line 100 raises NameError.
CallbackFinish(r) ==
    /\ pc[r] = "cb_refresh"
    /\ oauth_states' = oauth_states \ {loc[r].state}
    /\ RedirectResponse(r, [loc[r] EXCEPT !.jwt = create_jwt_token(loc[r].user, now)],
                        "auth.py:100")
    /\ UNCHANGED <<now, users, tokens, jwt_in, jwt_out>>


----------------------------------------------------------------------------
(* GET /status: auth_status, with AuthService.get_valid_brightspace_token. *)

\* auth.py lines 211-222 and auth_service.py lines 259-260: the header and
\* the session token are checked, up to the await of the token lookup.
StatusBegin(r, E) ==
    /\ Idle(r)
    /\ \E header \in E.headers :
         LET l == [Start(r, "status") EXCEPT !.header = header]
             payload == verify_jwt_token(header.token, now)
         IN  IF header.scheme # "Bearer"
             THEN Finish(r, l, "auth.py:213", StatusBody(FALSE, FALSE, None))
             ELSE IF payload = <<>>
             THEN Finish(r, l, "auth.py:219", StatusBody(FALSE, FALSE, None))
             ELSE Goto(r, [l EXCEPT !.sub = payload[1].sub], "gvt_select")
    /\ UNCHANGED <<now, oauth_states, users, tokens, jwt_in, jwt_out>>

\* auth.py lines 224-228 once get_valid_brightspace_token has returned `ret`.
StatusReturn(r, l, exit, ret) ==
    Finish(r, [l EXCEPT !.ret = ret], exit, StatusBody(TRUE, ret # None, l.sub))

\* auth_service.py lines 260-270: the token lookup answers
\* (scalar_one_or_none raises MultipleResultsFound on two rows), and the
\* first test, is_expired() and refresh_token, is made; when it holds, up
\* to the await of the refresh call.
GvtSelect(r) ==
    /\ pc[r] = "gvt_select"
    /\ LET rows == TokenRowsOf(loc[r].sub)
           row == CHOOSE i \in rows : TRUE
           token_record == tokens[row]
       IN  IF Cardinality(rows) > 1
           THEN Finish(r, loc[r], "auth_service.py:261",
                       InternalServerError("MultipleResultsFound"))
           ELSE IF rows = {}
           THEN StatusReturn(r, loc[r], "auth_service.py:264", None)
           ELSE IF is_expired(token_record, now) /\ Truthy(token_record.refresh_token)
           THEN Goto(r, [loc[r] EXCEPT !.rec = token_record, !.row = row,
                                       !.calls.refresh = 1], "gvt_refresh")
           ELSE Goto(r, [loc[r] EXCEPT !.rec = token_record, !.row = row], "gvt_elif")
    /\ UNCHANGED <<now, oauth_states, users, tokens, jwt_in, jwt_out>>

\* GvtElif without the second test, the loaded access token returned
\* whatever its expiry: the variant C7 must tell from GvtElif.
GvtElif_untested(r) ==
    /\ pc[r] = "gvt_elif"
    /\ StatusReturn(r, loc[r], "auth_service.py:280", loc[r].rec.access_token)
    /\ UNCHANGED <<now, oauth_states, users, tokens, jwt_in, jwt_out>>

\* auth_service.py lines 279-282: the second test reads the clock again.
GvtElif(r) ==
    /\ pc[r] = "gvt_elif"
    /\ IF ~is_expired(loc[r].rec, now)
       THEN StatusReturn(r, loc[r], "auth_service.py:280", loc[r].rec.access_token)
       ELSE StatusReturn(r, loc[r], "auth_service.py:282", None)
    /\ UNCHANGED <<now, oauth_states, users, tokens, jwt_in, jwt_out>>

\* GvtRefresh with the stored refresh token dropped after a failure: the
\* variant C31 must tell from GvtRefresh.
GvtRefresh_disconnecting(r, E) ==
    /\ pc[r] = "gvt_refresh"
    /\ \E ans \in E.refresh :
         IF ans.kind # "ok"
         THEN /\ StatusReturn(r, loc[r], "auth_service.py:277", None)
              /\ tokens' = [i \in 1..Len(tokens) |->
                              IF i = loc[r].row THEN [tokens[i] EXCEPT !.refresh_token = None]
                              ELSE tokens[i]]
              /\ UNCHANGED <<now, oauth_states, users, jwt_in, jwt_out>>
         ELSE /\ Goto(r, [loc[r] EXCEPT !.token_data = ans.body], "gvt_save_select")
              /\ UNCHANGED <<now, oauth_states, users, tokens, jwt_in, jwt_out>>

\* GvtRefresh with the refresh call made again after a failure: the variant
\* C26 must tell from GvtRefresh.
GvtRefresh_retrying(r, E) ==
    /\ pc[r] = "gvt_refresh"
    /\ \E ans \in E.refresh :
         IF ans.kind # "ok"
         THEN Goto(r, [loc[r] EXCEPT !.calls.refresh = 3 - @], "gvt_refresh")
         ELSE Goto(r, [loc[r] EXCEPT !.token_data = ans.body], "gvt_save_select")
    /\ UNCHANGED <<now, oauth_states, users, tokens, jwt_in, jwt_out>>

\* refresh_access_token returns or raises (lines 110-125: every failure is
\* an AuthenticationError, caught at line 275); on a 2xx body,
\* _save_brightspace_tokens up to the await of its token lookup.
GvtRefresh(r, E) ==
    /\ pc[r] = "gvt_refresh"
    /\ \E ans \in E.refresh :
         IF ans.kind # "ok"
         THEN StatusReturn(r, loc[r], "auth_service.py:277", None)
         ELSE Goto(r, [loc[r] EXCEPT !.token_data = ans.body], "gvt_save_select")
    /\ UNCHANGED <<now, oauth_states, users, tokens, jwt_in, jwt_out>>

\* _save_brightspace_tokens lines 219-246 and line 272: the lookup
\* answers, the record is overwritten from token_data (KeyError when the
\* body lacks access_token; the exception is no AuthenticationError and
\* leaves get_valid_brightspace_token and auth_status), up to the await of
\* the commit.
GvtSaveSelect(r) ==
    /\ pc[r] = "gvt_save_select"
    /\ LET rows == TokenRowsOf(loc[r].sub)
       IN  IF Cardinality(rows) > 1
           THEN Finish(r, loc[r], "auth_service.py:220",
                       InternalServerError("MultipleResultsFound"))
           ELSE IF loc[r].token_data.access_token = Missing
           THEN Finish(r, loc[r], "auth_service.py:230", InternalServerError("KeyError"))
           ELSE Goto(r, [loc[r] EXCEPT !.pend = token_fields(loc[r].sub, loc[r].token_data, now),
                                       !.row = IF rows = {} THEN 0 ELSE CHOOSE i \in rows : TRUE],
                     "gvt_commit")
    /\ UNCHANGED <<now, oauth_states, users, tokens, jwt_in, jwt_out>>


\* GvtCommit with the stored refresh token kept when the response has
\* none: the variant C32 must tell from GvtCommit.
GvtCommit_keeping(r) ==
    /\ pc[r] = "gvt_commit"
    /\ LET kept == IF loc[r].pend.refresh_token = None
                   THEN [loc[r].pend EXCEPT !.refresh_token = loc[r].rec.refresh_token]
                   ELSE loc[r].pend
       IN  IF TokenConstraintsOK(kept)
           THEN /\ tokens' = TokensAfter(kept, loc[r].row)
                /\ StatusReturn(r, loc[r], "auth_service.py:273", loc[r].token_data.access_token)
           ELSE /\ Finish(r, loc[r], "auth_service.py:272", InternalServerError("IntegrityError"))
                /\ UNCHANGED tokens
    /\ UNCHANGED <<now, oauth_states, users, jwt_in, jwt_out>>

\* db.commit() of line 272 and the return of line 273.
GvtCommit(r) ==
    /\ pc[r] = "gvt_commit"
    /\ IF TokenConstraintsOK(loc[r].pend)
       THEN /\ tokens' = TokensAfter(loc[r].pend, loc[r].row)
            /\ StatusReturn(r, loc[r], "auth_service.py:273", loc[r].token_data.access_token)
       ELSE /\ Finish(r, loc[r], "auth_service.py:272", InternalServerError("IntegrityError"))
            /\ UNCHANGED tokens
    /\ UNCHANGED <<now, oauth_states, users, jwt_in, jwt_out>>

----------------------------------------------------------------------------
(* POST /token/refresh, GET /me, POST /logout: refresh_token,               *)
(* get_current_user, logout.                                                *)

\* AuthService.get_user_by_id: select(User).where(User.id == user_id).
get_user_by_id(user_id) == { u \in users : u.id = user_id }

\* auth.py lines 121-132 and 162-173: the header and the session token are
\* checked, up to the await of the user lookup.  `op` is "token_refresh" or
\* "me"; the two handlers differ in their line numbers only.
BearerBegin(r, E, op, line) ==
    /\ Idle(r)
    /\ \E header \in E.headers :
         LET l == [Start(r, op) EXCEPT !.header = header, !.at = now]
             payload == verify_jwt_token(header.token, now)
         IN  IF header.scheme # "Bearer"
             THEN Finish(r, l, line[1],
                         HTTPException(401, "Missing or invalid authorization header"))
             ELSE IF payload = <<>>
             THEN Finish(r, l, line[2], HTTPException(401, "Invalid or expired token"))
             ELSE Goto(r, [l EXCEPT !.sub = payload[1].sub], line[3])
    /\ UNCHANGED <<now, oauth_states, users, tokens, jwt_in, jwt_out>>

TokenRefreshBegin(r, E) ==
    BearerBegin(r, E, "token_refresh", <<"auth.py:123", "auth.py:129", "tr_select">>)

MeBegin(r, E) ==
    BearerBegin(r, E, "me", <<"auth.py:164", "auth.py:170", "me_select">>)

\* TokenRefreshSelect answering only a user who has a provider token row:
\* the variant C29 must tell from TokenRefreshSelect.
TokenRefreshSelect_connected(r) ==
    /\ pc[r] = "tr_select"
    /\ LET found == get_user_by_id(loc[r].sub)
           user == CHOOSE u \in found : TRUE
       IN  IF found = {} \/ TokenRowsOf(loc[r].sub) = {}
           THEN Finish(r, loc[r], "auth.py:134", HTTPException(404, "User not found"))
           ELSE Finish(r, [loc[r] EXCEPT !.jwt = create_jwt_token(user, now)],
                       "auth.py:139", UserBody(user))
    /\ UNCHANGED <<now, oauth_states, users, tokens, jwt_in, jwt_out>>

\* auth.py lines 132-151: the user lookup answers; the new session token
\* is made for the row found.
TokenRefreshSelect(r) ==
    /\ pc[r] = "tr_select"
    /\ LET found == get_user_by_id(loc[r].sub)
           user == CHOOSE u \in found : TRUE
       IN  IF found = {}
           THEN Finish(r, loc[r], "auth.py:134", HTTPException(404, "User not found"))
           ELSE Finish(r, [loc[r] EXCEPT !.jwt = create_jwt_token(user, now)],
                       "auth.py:139", UserBody(user))
    /\ UNCHANGED <<now, oauth_states, users, tokens, jwt_in, jwt_out>>

\* MeSelect without the test of line 174: the attribute access of line 178
\* fails on None.  The variant C11 must tell from MeSelect.
MeSelect_unchecked(r) ==
    /\ pc[r] = "me_select"
    /\ LET found == get_user_by_id(loc[r].sub)
           user == CHOOSE u \in found : TRUE
       IN  IF found = {}
           THEN Finish(r, loc[r], "auth.py:178", InternalServerError("AttributeError"))
           ELSE Finish(r, loc[r], "auth.py:177", UserBody(user))
    /\ UNCHANGED <<now, oauth_states, users, tokens, jwt_in, jwt_out>>

\* auth.py lines 173-185.
MeSelect(r) ==
    /\ pc[r] = "me_select"
    /\ LET found == get_user_by_id(loc[r].sub)
           user == CHOOSE u \in found : TRUE
       IN  IF found = {}
           THEN Finish(r, loc[r], "auth.py:175", HTTPException(404, "User not found"))
           ELSE Finish(r, loc[r], "auth.py:177", UserBody(user))
    /\ UNCHANGED <<now, oauth_states, users, tokens, jwt_in, jwt_out>>

\* Logout emptying the state cache: the variant C19 must tell from Logout.
Logout_clearing(r) ==
    /\ Idle(r)
    /\ Finish(r, Start(r, "logout"), "auth.py:200", LogoutBody)
    /\ oauth_states' = {}
    /\ UNCHANGED <<now, users, tokens, jwt_in, jwt_out>>

\* auth.py lines 187-200: the handler reads nothing and has no await.
Logout(r) ==
    /\ Idle(r)
    /\ Finish(r, Start(r, "logout"), "auth.py:200", LogoutBody)
    /\ UNCHANGED <<now, oauth_states, users, tokens, jwt_in, jwt_out>>

----------------------------------------------------------------------------
(* The server.                                                             *)

NoLast == [op |-> "none", exit |-> "", resp |-> NoResp, calls |-> NoCalls,
           sub |-> None, rec |-> NoRow, ret |-> None, jwt |-> MalformedToken(""),
           header |-> EmptyLoc.header, at |-> 0, info |-> NoInfo,
           query |-> [code |-> None, state |-> None, error |-> None]]

NoJwtIn == [token |-> MalformedToken(""), origin |-> "none"]
NoJwtOut == [done |-> FALSE, at |-> 0, result |-> <<>>]

\* The callback's query parameters.
CallbackParams ==
    [code : {None, "c1"}, state : States \cup {None}, error : {None, "access_denied"}]

OkBody(access_token, refresh_token, expires_in) ==
    [kind |-> "ok", body |-> [access_token |-> access_token,
                              refresh_token |-> refresh_token, expires_in |-> expires_in]]
Failed(kind) == [kind |-> kind, body |-> NoBody]

\* The environment of the sequential runs: one request at a time, every
\* request and every provider answer of the model.
EnvSeq ==
    [states |-> States, params |-> CallbackParams, exchange |-> TokenAnswers,
     identity |-> IdentityAnswers, refresh |-> TokenAnswers, headers |-> Headers]

\* The environment of the concurrent runs: two requests at a time; logins
\* of the known user, whose grants expire and can be refreshed or not, and
\* status requests of that user.
EnvPar ==
    [states |-> {"s1"},
     params |-> {[code |-> "c1", state |-> "s1", error |-> None]},
     exchange |-> {OkBody("at1", "rt1", Some(1)), OkBody("at2", None, Some(1)),
                   OkBody("at1", None, NoneT), Failed("http_status")},
     identity |-> {[kind |-> "ok", body |-> [Identifier |-> "b1", EmailAddress |-> "e1",
                                             Name |-> "n1"]]},
     refresh |-> {OkBody("at2", "rt1", Some(1)), OkBody(Missing, None, NoneT),
                  Failed("http_status"), Failed("transport")},
     headers |-> {[scheme |-> "Bearer",
                   token |-> jwt_encode(ClaimsOf("u1", JwtLifetime), JWT_SECRET,
                                        JWT_ALGORITHM)]}]

Init ==
    /\ now = 0
    /\ oauth_states = {}
    /\ users \in {{}, {User1}}
    /\ tokens = <<>>
    /\ pc = [r \in Req |-> "idle"]
    /\ loc = [r \in Req |-> EmptyLoc]
    /\ last = NoLast
    /\ jwt_in = NoJwtIn
    /\ jwt_out = NoJwtOut

\* One step of the handler in slot r, in environment E.
Handler(r, E) ==
    \/ Login(r, E)
    \/ CallbackBegin(r, E)
    \/ CallbackExchange(r, E)
    \/ CallbackIdentity(r, E)
    \/ CallbackSelectUser(r)
    \/ CallbackSelectToken(r)
    \/ CallbackCommit(r)
    \/ CallbackFinish(r)
    \/ StatusBegin(r, E)
    \/ GvtSelect(r)
    \/ GvtElif(r)
    \/ GvtRefresh(r, E)
    \/ GvtSaveSelect(r)
    \/ GvtCommit(r)

\* Two requests at a time.
Next ==
    \/ Tick
    \/ \E r \in Req : Handler(r, EnvPar)

Spec == Init /\ [][Next]_vars

\* One step of a session endpoint in slot r, in environment E.
Session(r, E) ==
    \/ TokenRefreshBegin(r, E)
    \/ TokenRefreshSelect(r)
    \/ MeBegin(r, E)
    \/ MeSelect(r)
    \/ Logout(r)

\* One request at a time.
NextSeq ==
    \/ Tick
    \/ Handler("r1", EnvSeq)
    \/ Session("r1", EnvSeq)

SpecSeq == Init /\ [][NextSeq]_vars

\* GET /login in the first second only.
LoginAtStart(r, E) == now = 0 /\ Login(r, E)

\* One request at a time, every state registered at second 0: logins at
\* the start, callbacks at any time.
NextStale ==
    \/ Tick
    \/ LoginAtStart("r1", EnvSeq)
    \/ CallbackBegin("r1", EnvSeq)
    \/ CallbackExchange("r1", EnvSeq)
    \/ CallbackIdentity("r1", EnvSeq)
    \/ CallbackSelectUser("r1")
    \/ CallbackSelectToken("r1")
    \/ CallbackCommit("r1")
    \/ CallbackFinish("r1")

SpecStale == Init /\ [][NextStale]_vars

\* The handler suspended in slot r is resumed: the call it awaits has
\* returned or raised.
Resume(r, E) == pc[r] # "idle" /\ Handler(r, E)

\* The environment of the runs to completion: logins of the known user,
\* whose grants expire, and status requests of that user, whose refresh
\* calls are answered or fail.
EnvLive ==
    [states |-> {"s1"},
     params |-> {[code |-> "c1", state |-> "s1", error |-> None]},
     exchange |-> {OkBody("at1", "rt1", Some(1))},
     identity |-> EnvPar.identity,
     refresh |-> {OkBody("at2", "rt1", Some(1)), Failed("transport")},
     headers |-> EnvPar.headers]

NextLive ==
    \/ Tick
    \/ \E r \in Req : Handler(r, EnvLive)

\* Two requests at a time, every awaited call answered: the event loop
\* resumes a coroutine whose awaited call is done.
SpecLive == Init /\ [][NextLive]_vars /\ \A r \in Req : WF_vars(Resume(r, EnvLive))

\* A token row present before the server starts: a grant of User1 with a
\* refresh token, which has expired.
StoredToken == [user_id |-> "u1", access_token |-> "at1", refresh_token |-> "rt1",
                expires_at |-> Some(0)]

InitRefresh ==
    /\ now = 0
    /\ oauth_states = {}
    /\ users = {User1}
    /\ tokens = <<StoredToken>>
    /\ pc = [r \in Req |-> "idle"]
    /\ loc = [r \in Req |-> EmptyLoc]
    /\ last = NoLast
    /\ jwt_in = NoJwtIn
    /\ jwt_out = NoJwtOut

\* The environment of the runs on a stored grant: token responses with and
\* without a refresh token, and with expires_in present, absent and 0.
EnvRefresh ==
    [states |-> {"s1"},
     params |-> {[code |-> "c1", state |-> "s1", error |-> None]},
     exchange |-> {OkBody("at1", "rt1", Some(1)), OkBody("at1", None, Some(0))},
     identity |-> EnvPar.identity,
     refresh |-> {OkBody("at2", None, Some(1)), OkBody("at2", "rt1", NoneT),
                  OkBody("at2", "rt1", Some(0)), Failed("http_status")},
     headers |-> EnvPar.headers]

\* One request at a time.
NextRefresh ==
    \/ Tick
    \/ Handler("r1", EnvRefresh)

SpecRefresh == InitRefresh /\ [][NextRefresh]_vars

\* One step of a login in slot r, in environment E: GET /login or a step
\* of the callback.
LoginFlow(r, E) ==
    \/ Login(r, E)
    \/ CallbackBegin(r, E)
    \/ CallbackExchange(r, E)
    \/ CallbackIdentity(r, E)
    \/ CallbackSelectUser(r)
    \/ CallbackSelectToken(r)
    \/ CallbackCommit(r)
    \/ CallbackFinish(r)

\* The environment of concurrent first logins: two states, and the
\* identity of a new user or of the known one.
EnvFirst ==
    [states |-> States,
     params |-> {[code |-> "c1", state |-> s, error |-> None] : s \in States},
     exchange |-> {OkBody("at1", "rt1", Some(1))},
     identity |-> {[kind |-> "ok", body |-> [Identifier |-> "b2", EmailAddress |-> "e2",
                                             Name |-> "n2"]],
                   [kind |-> "ok", body |-> [Identifier |-> "b1", EmailAddress |-> "e1",
                                             Name |-> "n1"]]},
     refresh |-> {}, headers |-> {}]

\* Two logins at a time.
NextFirst ==
    \/ Tick
    \/ \E r \in Req : LoginFlow(r, EnvFirst)

SpecFirst == Init /\ [][NextFirst]_vars

\* The environment of logins by identities of every shape: without email,
\* with the email of another user, without identifier.
EnvIdent ==
    [states |-> {"s1"},
     params |-> {[code |-> "c1", state |-> "s1", error |-> None]},
     exchange |-> {OkBody("at1", "rt1", Some(1)), OkBody("at2", None, NoneT)},
     identity |-> { [kind |-> "ok", body |-> body] :
                    body \in { [Identifier |-> "b1", EmailAddress |-> "e1", Name |-> "n1"],
                               [Identifier |-> "b2", EmailAddress |-> None, Name |-> "n2"],
                               [Identifier |-> "b2", EmailAddress |-> "e1", Name |-> "n2"],
                               [Identifier |-> None, EmailAddress |-> "e2", Name |-> "n2"],
                               [Identifier |-> None, EmailAddress |-> "e3", Name |-> "n3"] } },
     refresh |-> {}, headers |-> {}]

\* One login at a time.
NextIdent ==
    \/ Tick
    \/ LoginFlow("r1", EnvIdent)

SpecIdent == Init /\ [][NextIdent]_vars

----------------------------------------------------------------------------
(* Session tokens on their own: a token is issued by create_jwt_token,     *)
(* altered or made without the secret by a client, and presented to        *)
(* verify_jwt_token (get_current_user line 167, auth_status line 216) at   *)
(* any time up to a little after its expiry.                                *)

\* create_jwt_token for the user of a completed login.
JwtIssue ==
    /\ \E user \in users :
         jwt_in' = [token |-> create_jwt_token(user, now), origin |-> "issued"]
    /\ jwt_out' = NoJwtOut
    /\ UNCHANGED <<now, oauth_states, users, tokens, pc, loc, last>>

\* The tokens that differ from `token` in one place: a claim of the payload,
\* the algorithm of the header, the bytes of the signature, the two bits of
\* the signature's last base64url character that carry no data (an HS256
\* signature is 32 bytes, 43 characters), or a separator.
Altered(token) ==
    { [token EXCEPT !.payload.sub = u] : u \in UserIds \ {token.payload.sub} }
    \cup { [token EXCEPT !.payload.exp = @ + 1] }
    \cup { [token EXCEPT !.header = "none"] }
    \cup { [token EXCEPT !.sig.mac.key = "altered"] }
    \cup { [token EXCEPT !.sig.pad = p] : p \in 1..3 }
    \cup { MalformedToken("no_separator") }

\* A client changes the token it was issued.
JwtAlter ==
    /\ jwt_in.origin = "issued"
    /\ \E token \in Altered(jwt_in.token) :
         jwt_in' = [token |-> token, origin |-> "altered"]
    /\ jwt_out' = NoJwtOut
    /\ UNCHANGED <<now, oauth_states, users, tokens, pc, loc, last>>

\* A client makes a token without the server's secret.
JwtForge ==
    /\ \E token \in { jwt_encode(ClaimsOf("u1", now + JwtLifetime), "other_key",
                                 JWT_ALGORITHM),
                      jwt_encode(ClaimsOf("u1", now + JwtLifetime), "", "none"),
                      MalformedToken("") } :
         jwt_in' = [token |-> token, origin |-> "forged"]
    /\ jwt_out' = NoJwtOut
    /\ UNCHANGED <<now, oauth_states, users, tokens, pc, loc, last>>

\* verify_jwt_token on the presented token, at the current second.
JwtVerify ==
    /\ jwt_in.origin # "none"
    /\ jwt_out' = [done |-> TRUE, at |-> now,
                   result |-> verify_jwt_token(jwt_in.token, now)]
    /\ UNCHANGED <<now, oauth_states, users, tokens, pc, loc, last, jwt_in>>

\* Nearly the lifetime of a token passes, or a second around its expiry.
JwtWait ==
    /\ \/ now <= MaxTime /\ now' = now + JwtLifetime - 1
       \/ now >= JwtLifetime - 1 /\ now < JwtLifetime + MaxTime /\ now' = now + 1
    /\ UNCHANGED <<oauth_states, users, tokens, pc, loc, last, jwt_in, jwt_out>>

InitJwt == Init /\ users = {User1}

NextJwt ==
    \/ Tick
    \/ JwtWait
    \/ JwtIssue
    \/ JwtAlter
    \/ JwtForge
    \/ JwtVerify

SpecJwt == InitJwt /\ [][NextJwt]_vars

----------------------------------------------------------------------------
(* The claims.                                                             *)

\* The positions of a callback that has passed the state validation.
CallbackPast ==
    {"cb_exchange", "cb_identity", "cb_select_user", "cb_select_token",
     "cb_commit", "cb_refresh"}

\* The redirect a handler answers with: RedirectResponse(url=APP_URL + path).
RedirectTo(path) == [NoResp EXCEPT !.status = 307, !.location = path]

\* C1: of two callbacks in flight at once with the same state value, at
\* most one passes the state validation.
C1_OnePassesValidation ==
    \A r1, r2 \in Req :
        (/\ r1 # r2
         /\ loc[r1].op = "callback" /\ loc[r2].op = "callback"
         /\ loc[r1].state = loc[r2].state)
        => ~(pc[r1] \in CallbackPast /\ pc[r2] \in CallbackPast)

\* C2: a callback whose state is not in the state cache is answered with a
\* redirect to the login page carrying error=invalid_state, having made no
\* exchange call and written no user or token row.
C2_UnknownStateRejected ==
    [][(last' # last /\ last'.op = "callback" /\ last'.exit = "auth.py:78")
       => /\ last'.resp = RedirectTo("/login?error=invalid_state")
          /\ last'.calls.exchange = 0
          /\ users' = users /\ tokens' = tokens]_vars

\* C3: when a callback makes its token-exchange call, its state has
\* already left the state cache.
C3_ConsumedBeforeExchange ==
    \A r \in Req :
        (loc[r].op = "callback" /\ loc[r].calls.exchange = 1)
        => loc[r].state \notin oauth_states

\* C4: two get-valid-token calls in flight at once for the same user never
\* both invoke the provider refresh operation.
C4_OneRefreshPerUser ==
    \A r1, r2 \in Req :
        (/\ r1 # r2
         /\ loc[r1].op = "status" /\ loc[r2].op = "status"
         /\ loc[r1].sub = loc[r2].sub)
        => ~(loc[r1].calls.refresh = 1 /\ loc[r2].calls.refresh = 1)

\* The stored token `rec` is not expired at second t: it has no expiry or
\* its expiry is later than t.
NotExpired(rec, t) == rec.expires_at = NoneT \/ Val(rec.expires_at) > t

\* Slot r takes the step.
Steps(r) == pc'[r] # pc[r] \/ loc'[r] # loc[r]

\* C5: a get-valid-token call that loads a token record which is not
\* expired (no expiry, or an expiry strictly after the current time) makes
\* no refresh call, changes no row, and, the record being still unexpired
\* at its second test, returns the record's access token.
C5_UnexpiredReturned ==
    [][\A r \in Req :
         /\ (/\ pc[r] = "gvt_select" /\ Steps(r)
             /\ Cardinality(TokenRowsOf(loc[r].sub)) = 1
             /\ \A i \in TokenRowsOf(loc[r].sub) : NotExpired(tokens[i], now))
            => /\ pc'[r] = "gvt_elif"
               /\ \A i \in TokenRowsOf(loc[r].sub) : loc'[r].rec = tokens[i]
               /\ loc'[r].calls.refresh = 0
               /\ tokens' = tokens
         /\ (pc[r] = "gvt_elif" /\ Steps(r) /\ NotExpired(loc[r].rec, now))
            => /\ pc'[r] = "idle"
               /\ last'.ret = loc[r].rec.access_token
               /\ last'.calls.refresh = 0
               /\ last'.resp.status = 200 /\ last'.resp.brightspace_connected
               /\ tokens' = tokens]_vars

\* C5 happens: a status request returned the access token of an unexpired
\* record without a refresh call.
C5_Witness ==
    /\ last.op = "status" /\ last.exit = "auth_service.py:280"
    /\ last.ret = last.rec.access_token /\ last.ret \in AccessTokens
    /\ last.calls.refresh = 0

\* The expiry `new` is later than the expiry `old`; no expiry is never.
Later(new, old) == new = NoneT \/ (old # NoneT /\ Val(new) > Val(old))

C7_ExpiredWithoutRefreshToken ==
    [][\A r \in Req :
         /\ (/\ pc[r] = "gvt_select" /\ Steps(r)
             /\ Cardinality(TokenRowsOf(loc[r].sub)) = 1
             /\ \A i \in TokenRowsOf(loc[r].sub) :
                  ~NotExpired(tokens[i], now) /\ tokens[i].refresh_token = None)
            => /\ pc'[r] = "gvt_elif"
               /\ loc'[r].calls.refresh = 0
               /\ tokens' = tokens
         /\ (/\ pc[r] = "gvt_elif" /\ Steps(r)
             /\ ~NotExpired(loc[r].rec, now) /\ loc[r].rec.refresh_token = None)
            => /\ pc'[r] = "idle"
               /\ last'.ret = None
               /\ last'.calls.refresh = 0
               /\ last'.resp.status = 200
               /\ last'.resp.authenticated /\ ~last'.resp.brightspace_connected
               /\ last'.resp.user_id = loc[r].sub
               /\ tokens' = tokens]_vars

\* C7 happens: a status request found an expired record without a refresh
\* token and answered authenticated, not connected.
C7_Witness ==
    /\ last.op = "status" /\ last.exit = "auth_service.py:282"
    /\ last.rec.expires_at # NoneT /\ last.rec.refresh_token = None
    /\ last.ret = None /\ last.calls.refresh = 0
    /\ last.resp.authenticated /\ ~last.resp.brightspace_connected

\* C8: a get-valid-token call that made a refresh call which failed
\* (status, transport, or a body without access_token) returns none and
\* the request ends without an error.
C8_RefreshFailureReturnsNone ==
    [][\A r \in Req :
         /\ (pc[r] = "gvt_refresh" /\ Steps(r) /\ pc'[r] = "idle")
            => last'.ret = None /\ last'.resp.status = 200
         /\ (/\ pc[r] = "gvt_save_select" /\ Steps(r)
             /\ loc[r].token_data.access_token = Missing)
            => /\ pc'[r] = "idle"
               /\ last'.ret = None /\ last'.resp.status = 200]_vars

\* C9: every status request is answered 200; without a Bearer header or
\* with an invalid token both flags are false.
C9_StatusAlways200 ==
    last.op = "status"
    => /\ last.resp.status = 200
       /\ last.exit \in {"auth.py:213", "auth.py:219"}
          => ~last.resp.authenticated /\ ~last.resp.brightspace_connected

\* The signature of `token` is the server secret's MAC of its header and
\* payload.
SignatureMatches(token) ==
    /\ token.form = "jws"
    /\ token.sig.mac = [key |-> JWT_SECRET, header |-> token.header,
                        payload |-> token.payload]

\* C10: verify returns claims exactly when the token's signature was made
\* with the server secret and its expiry is strictly after the time of the
\* check; a token altered after issuance never verifies.
C10_VerifiesIffSignedAndFresh ==
    jwt_out.done
    => /\ (jwt_out.result # <<>>)
          <=> (SignatureMatches(jwt_in.token) /\ jwt_in.token.payload.exp > jwt_out.at)
       /\ jwt_in.origin = "altered" => jwt_out.result = <<>>

\* C11: /me and /token/refresh answer 401 when the Authorization header is
\* missing, is not a Bearer header or its token fails verification; 404
\* when the token verifies and no User row has its subject; and otherwise
\* 200 with the payload of that user and, for /token/refresh, a new session
\* token of that user that verifies.
C11_BearerEndpoints ==
    last.op \in {"me", "token_refresh"}
    => LET payload == verify_jwt_token(last.header.token, last.at)
       IN  IF last.header.scheme # "Bearer" \/ payload = <<>>
           THEN last.resp.status = 401
           ELSE IF \A u \in users : u.id # payload[1].sub
           THEN last.resp.status = 404
           ELSE /\ last.resp.status = 200
                /\ last.resp.user.id = payload[1].sub
                /\ \E u \in users : last.resp.user = UserResponse(u)
                /\ last.op = "token_refresh"
                   => /\ verify_jwt_token(last.jwt, last.at) # <<>>
                      /\ last.jwt.payload.sub = payload[1].sub

\* C11 happens: /token/refresh answered a verified token of a known user
\* with the user's payload and a new session token.
C11_Witness ==
    /\ last.op = "token_refresh" /\ last.resp.status = 200
    /\ last.header.scheme = "Bearer"
    /\ last.jwt.form = "jws"

\* The User rows of provider identity bsid in table `rows`.
RowsOfIdentity(rows, bsid) == { u \in rows : u.brightspace_user_id = bsid }

\* The previous request was a callback that ran create_or_update_user.
LastResolvedUser ==
    /\ last.op = "callback" /\ last.calls.identity = 1
    /\ last.exit \in {"auth.py:100", "auth.py:109"}

\* C12: when create_or_update_user has run twice in sequence for one
\* provider identity, exactly one User row has that identity, and no row's
\* last login has moved backwards.
C12_ResolveUserIdempotent ==
    [][\A r \in Req :
         (/\ pc[r] = "cb_commit" /\ Steps(r)
          /\ LastResolvedUser
          /\ last.info.Identifier = loc[r].info.Identifier)
         => /\ Cardinality(RowsOfIdentity(users', loc[r].info.Identifier)) = 1
            /\ \A u \in users : \A v \in users' :
                 (u.id = v.id /\ u.last_login_at # NoneT)
                 => /\ v.last_login_at # NoneT
                    /\ Val(v.last_login_at) >= Val(u.last_login_at)]_vars

\* C13: no two User rows have the same provider identity id.
C13_IdentityUnique ==
    \A u, v \in users :
        (u.brightspace_user_id = v.brightspace_user_id /\ u.brightspace_user_id # None)
        => u = v

\* C13 happens: of two first logins of one identity in flight together,
\* one has ended at its commit and the other, which looked the user up
\* before, is at its commit.
C13_Witness ==
    /\ pc["r1"] = "idle" /\ pc["r2"] = "cb_commit" /\ loc["r2"].is_new
    /\ last.op = "callback" /\ last.calls.identity = 1 /\ last.exit = "auth.py:109"
    /\ last.info.Identifier = loc["r2"].info.Identifier

C15_UserAndTokenTogether ==
    /\ \A u \in users :
         u.last_login_at # NoneT => \E i \in 1..Len(tokens) : tokens[i].user_id = u.id
    /\ \A i \in 1..Len(tokens) : \E u \in users : u.id = tokens[i].user_id

\* C15 happens: a login has committed its User write and its token write
\* together, and the last request was a callback that reached the writes.
C15_Witness ==
    /\ \E u \in users :
         /\ u.last_login_at # NoneT
         /\ \E i \in 1..Len(tokens) : tokens[i].user_id = u.id
    /\ last.op = "callback" /\ last.calls.identity = 1

\* C16: a callback with an issued state and an accepted code, for an
\* identity without a User row, commits one new User row and one new
\* token row owned by it, and makes a session token that verifies and
\* whose subject is the new user's id.
C16_FirstLogin ==
    [][\A r \in Req :
         /\ (/\ pc[r] = "cb_commit" /\ Steps(r)
             /\ RowsOfIdentity(users, loc[r].info.Identifier) = {}
             /\ Truthy(loc[r].info.EmailAddress))
            => /\ pc'[r] = "cb_refresh"
               /\ Cardinality(users') = Cardinality(users) + 1
               /\ Len(tokens') = Len(tokens) + 1
               /\ loc'[r].user \in users' \ users
               /\ tokens'[Len(tokens')].user_id = loc'[r].user.id
         /\ (pc[r] = "cb_refresh" /\ Steps(r))
            => /\ verify_jwt_token(last'.jwt, now) # <<>>
               /\ last'.jwt.payload.sub = loc[r].user.id]_vars

\* The redirects brightspace_callback is written to answer with: the
\* dashboard with the session token, or the login page with an error code
\* (access_denied is the provider-supplied error of the model).
CallbackRedirects ==
    { RedirectTo("/dashboard?token=") }
    \cup { RedirectTo(path) : path \in { "/login?error=missing_parameters",
                                         "/login?error=invalid_state",
                                         "/login?error=auth_failed",
                                         "/login?error=server_error",
                                         "/login?error=access_denied" } }

\* C17: every callback ends in a redirect to the front end that carries a
\* session token or one of the error codes; none ends in an unhandled error.
C17_CallbackAlwaysRedirects ==
    last.op = "callback" => last.resp \in CallbackRedirects

\* The reason a finished callback `l` failed for, "" when it did not: read
\* off the line it ended at and the provider calls it had made.
FailureReason(l) ==
    IF l.op # "callback" THEN ""
    ELSE IF l.exit = "auth.py:66" THEN "provider_error"
    ELSE IF l.exit = "auth.py:72" THEN "missing_parameters"
    ELSE IF l.exit = "auth.py:78" THEN "invalid_state"
    ELSE IF l.exit = "auth.py:105" /\ l.calls.identity = 0 THEN "exchange_failed"
    ELSE IF l.exit = "auth.py:105" THEN "identity_fetch_failed"
    ELSE IF l.exit = "auth.py:109" THEN "server_error"
    ELSE ""

\* C18: two callbacks, one after the other, that fail for different
\* reasons are answered differently.
C18_DistinctFailureCodes ==
    [][(/\ FailureReason(last) # "" /\ FailureReason(last') # ""
        /\ FailureReason(last) # FailureReason(last'))
       => last'.resp # last.resp]_vars

StateWindow == MaxTime - 1

\* C20: a state registered at second 0 and not consumed passes the state
\* check of a callback only within its validity window.
C20_StaleStateRejected ==
    [][\A r \in Req :
         (pc[r] = "idle" /\ pc'[r] = "cb_exchange") => now <= StateWindow]_vars

\* C21: once a get-valid-token call for a user has returned none because
\* its refresh call failed, or because the record was expired and had no
\* refresh token, the next get-valid-token call for that user, no login
\* having run in between, returns none too.
C21_DisconnectedUntilLogin ==
    [][(/\ last.op = "status"
        /\ \/ last.exit = "auth_service.py:277"
           \/ last.exit = "auth_service.py:282" /\ last.rec.refresh_token = None
        /\ last' # last /\ last'.op = "status" /\ last'.sub = last.sub)
       => last'.ret = None]_vars

\* C22: after every /login response the returned state is in the state
\* cache, every other entry of the cache is as it was, and no User row and
\* no token row has changed; the request makes no provider call.
C22_LoginOnlyRegisters ==
    [][(last' # last /\ last'.op = "login")
       => /\ last'.resp = LoginBody(last'.resp.state)
          /\ last'.resp.state \in oauth_states'
          /\ oauth_states' \ {last'.resp.state} = oauth_states \ {last'.resp.state}
          /\ users' = users /\ tokens' = tokens
          /\ last'.calls = NoCalls]_vars

\* C22 happens: /login has answered with a state while another state was
\* registered and a User row and a token row were stored.
C22_Witness ==
    /\ last.op = "login" /\ last.resp.status = 200
    /\ last.resp.state \in oauth_states
    /\ oauth_states \ {last.resp.state} # {}
    /\ users # {} /\ tokens # <<>>

\* Slot r arrives at position p.
Reaches(r, p) == pc[r] # p /\ pc'[r] = p

\* C23: a callback makes a session token only after its state was found in
\* the state cache, then its code was exchanged, then the identity was
\* fetched, then the User row and the token row were committed, in this
\* order; a callback that ends before the end of these steps makes none.
C23_TokenAfterAllSteps ==
    [][/\ \A r \in Req :
            /\ Reaches(r, "cb_exchange")
               => pc[r] = "idle" /\ loc'[r].state \in oauth_states
            /\ Reaches(r, "cb_identity")
               => pc[r] = "cb_exchange" /\ loc'[r].token_data.access_token \in AccessTokens
            /\ Reaches(r, "cb_select_user")
               => pc[r] = "cb_identity" /\ loc'[r].info \in IdentityBodies
            /\ Reaches(r, "cb_select_token") => pc[r] = "cb_select_user"
            /\ Reaches(r, "cb_commit") => pc[r] = "cb_select_token"
            /\ Reaches(r, "cb_refresh")
               => /\ pc[r] = "cb_commit"
                  /\ loc'[r].user \in users'
                  /\ loc'[r].user.brightspace_user_id = loc[r].info.Identifier
                  /\ \E i \in 1..Len(tokens') :
                       /\ tokens'[i].user_id = loc'[r].user.id
                       /\ tokens'[i].access_token = loc[r].token_data.access_token
            /\ (pc[r] \in CallbackPast /\ pc'[r] = "idle" /\ last'.jwt.form = "jws")
               => pc[r] = "cb_refresh" /\ last'.jwt.payload.sub = loc[r].user.id
       /\ (last'.op = "callback" /\ last'.exit # "auth.py:100")
          => last'.jwt = MalformedToken("")]_vars

\* C23 happens: a callback has gone through every step and made a session
\* token that verifies, for a user with a committed row and token row.
C23_Witness ==
    /\ last.op = "callback" /\ last.exit = "auth.py:100"
    /\ verify_jwt_token(last.jwt, now) # <<>>
    /\ \E u \in users : u.id = last.jwt.payload.sub /\ TokenRowsOf(u.id) # {}

\* The redirects of a failed login: the login page with one of the fixed
\* error codes.
FailureRedirects ==
    { RedirectTo(path) : path \in { "/login?error=missing_parameters",
                                    "/login?error=invalid_state",
                                    "/login?error=auth_failed",
                                    "/login?error=server_error" } }

\* The finished request `l` is a callback whose token-exchange call or
\* identity call failed upstream.
UpstreamFailure(l) == l.op = "callback" /\ l.exit = "auth.py:105"

\* C24: a callback whose exchange call or identity call failed upstream is
\* answered with a redirect carrying one of the fixed error codes, and two
\* such callbacks, one after the other, that failed at the same call are
\* answered alike, whatever the provider's failure was.
C24_UpstreamDetailNotForwarded ==
    [][(last' # last /\ UpstreamFailure(last'))
       => /\ last'.resp \in FailureRedirects
          /\ (UpstreamFailure(last) /\ last.calls = last'.calls)
             => last'.resp = last.resp]_vars

\* C26: every awaited provider call and datastore call being answered,
\* every request in progress (a callback, or a status request in
\* get_valid_brightspace_token) comes to its end.
C26_EveryRequestEnds ==
    \A r \in Req : (pc[r] # "idle") ~> (pc[r] = "idle")

\* C26 happens: a callback and a get-valid-token call are in progress
\* together, the callback waiting for its commit.
C26_Witness ==
    /\ pc["r1"] = "cb_commit" /\ pc["r2"] \in {"gvt_refresh", "gvt_commit"}

\* In this step the handler of slot r makes one provider call of kind
\* `kind` and no other.
MakesCall(r, kind) ==
    /\ loc'[r].calls[kind] = loc[r].calls[kind] + 1
    /\ \A other \in DOMAIN NoCalls \ {kind} : loc'[r].calls[other] = loc[r].calls[other]

\* C27: one callback makes at most one token-exchange call and at most one
\* identity call, the identity call only after the exchange call was
\* answered with a body, and one get-valid-token call makes at most one
\* refresh call; a call that has been answered, with a result or a failure,
\* is not made again.
C27_NoRetry ==
    [][\A r \in Req :
         /\ \A kind \in DOMAIN NoCalls : loc'[r].calls[kind] <= 1
         /\ last'.calls.exchange <= 1 /\ last'.calls.identity <= 1 /\ last'.calls.refresh <= 1
         /\ last'.calls.identity = 1 => last'.calls.exchange = 1
         /\ (pc[r] = "cb_exchange" /\ Steps(r))
            => \/ pc'[r] = "idle" /\ last'.calls = loc[r].calls
               \/ pc'[r] = "cb_identity" /\ MakesCall(r, "identity")
                  /\ loc'[r].token_data.access_token \in AccessTokens
         /\ (pc[r] = "cb_identity" /\ Steps(r))
            => \/ pc'[r] = "idle" /\ last'.calls = loc[r].calls
               \/ pc'[r] = "cb_select_user" /\ loc'[r].calls = loc[r].calls
         /\ (pc[r] = "gvt_refresh" /\ Steps(r))
            => \/ pc'[r] = "idle" /\ last'.calls = loc[r].calls
               \/ pc'[r] = "gvt_save_select" /\ loc'[r].calls = loc[r].calls
         /\ (pc[r] \notin {"idle", "cb_exchange", "gvt_select"} /\ pc'[r] # "idle")
            => loc'[r].calls = loc[r].calls]_vars

\* C27 happens: a status request whose one refresh call failed has ended,
\* and a callback has had its exchange call and its identity call answered.
C27_Witness ==
    /\ last.op = "status" /\ last.exit = "auth_service.py:277" /\ last.calls.refresh = 1
    /\ oauth_states # {}
    /\ \E r \in Req : /\ pc[r] = "cb_select_user"
                       /\ loc[r].calls.exchange = 1 /\ loc[r].calls.identity = 1

\* `token` is a session token of user `user_id` made at second t: at any
\* time from t to just before its expiry it verifies to its claims, whose
\* subject is the user and whose expiry is t plus the configured lifetime.
IssuedFor(token, user_id, t) ==
    /\ token.payload.sub = user_id
    /\ token.payload.exp = t + JWT_EXPIRATION_HOURS * 3600
    /\ \A at \in {t, t + 1, token.payload.exp - 1} :
         /\ verify_jwt_token(token, at) # <<>>
         /\ verify_jwt_token(token, at)[1].sub = user_id
         /\ verify_jwt_token(token, at)[1].exp = t + JWT_EXPIRATION_HOURS * 3600

\* C28: the session token a callback makes for a user, and the one
\* /token/refresh makes when called with a token that verifies, verify
\* before their expiry to claims whose subject is that user's id (for
\* /token/refresh: the subject of the presented token) and whose expiry is a
\* full lifetime after the second they were made at.
C28_IssueVerifyRenew ==
    [][\A r \in Req :
         /\ (pc[r] = "cb_refresh" /\ Steps(r))
            => IssuedFor(last'.jwt, loc[r].user.id, now)
         /\ (pc[r] = "tr_select" /\ Steps(r) /\ get_user_by_id(loc[r].sub) # {})
            => /\ last'.resp.status = 200
               /\ IssuedFor(last'.jwt, loc[r].header.token.payload.sub, now)]_vars

\* C28 happens: /token/refresh, called at second 1 with a token that
\* expires a lifetime after second 0, has made a token that expires a
\* lifetime after second 1.
C28_Witness ==
    /\ last.op = "token_refresh" /\ last.resp.status = 200
    /\ last.at = 1
    /\ last.header.token.payload.exp = JWT_EXPIRATION_HOURS * 3600
    /\ last.jwt.payload.exp = 1 + JWT_EXPIRATION_HOURS * 3600
    /\ last.jwt.payload.sub = last.header.token.payload.sub

\* The answer to a /me or /token/refresh request with Authorization header
\* `header` read at second t, as a function of the User rows alone.
SessionAnswer(header, t, rows) ==
    LET payload == verify_jwt_token(header.token, t)
    IN  IF header.scheme # "Bearer"
        THEN HTTPException(401, "Missing or invalid authorization header")
        ELSE IF payload = <<>> THEN HTTPException(401, "Invalid or expired token")
        ELSE IF \A u \in rows : u.id # payload[1].sub
        THEN HTTPException(404, "User not found")
        ELSE UserBody(CHOOSE u \in rows : u.id = payload[1].sub)

\* Slot r takes a step of a /me or /token/refresh request.
SessionStep(r) ==
    /\ Steps(r) \/ last' # last
    /\ \/ pc[r] \in {"tr_select", "me_select"}
       \/ pc'[r] \in {"tr_select", "me_select"}
       \/ pc[r] = "idle" /\ pc'[r] = "idle" /\ last'.op \in {"me", "token_refresh"}
          /\ last' # last

\* C29: no step of a /me or /token/refresh request changes a token row, a
\* User row or the state cache or makes a provider call; the answer is a
\* function of the header and the User rows, the same whatever token row
\* the user has; and a request that has made a refresh call is a /status
\* request.
C29_SessionEndpointsIgnoreTokenStore ==
    [][/\ \A r \in Req :
            /\ SessionStep(r)
               => /\ tokens' = tokens /\ users' = users /\ oauth_states' = oauth_states
                  /\ loc'[r].calls = NoCalls
            /\ loc'[r].calls.refresh > 0 => loc'[r].op = "status"
       /\ (last' # last /\ last'.op \in {"me", "token_refresh"})
          => /\ last'.resp = SessionAnswer(last'.header, last'.at, users)
             /\ last'.calls = NoCalls
       /\ last'.calls.refresh > 0 => last'.op = "status"]_vars

\* C29 happens: /me has answered 200 to a user whose provider token is
\* expired.
C29_Witness ==
    /\ last.op = "me" /\ last.resp.status = 200
    /\ TokenRowsOf(last.sub) # {}
    /\ \A i \in TokenRowsOf(last.sub) : is_expired(tokens[i], now)

\* C30: every User row stays, with its id and its provider identity id; a
\* row changes only at the commit of a login of its identity, which sets
\* the email and the name to those of the identity, or keeps the stored one
\* where the identity has none, and sets the last login to a reading of
\* the clock.
C30_UserRowsKept ==
    [][\A u \in users : \E v \in users' :
         /\ v.id = u.id
         /\ v.brightspace_user_id = u.brightspace_user_id
         /\ \/ v = u
            \/ \E r \in Req :
                 /\ pc[r] = "cb_commit" /\ pc'[r] = "cb_refresh"
                 /\ loc[r].info.Identifier = u.brightspace_user_id
                 /\ v.email = IF loc[r].info.EmailAddress \in {None, ""}
                              THEN u.email ELSE loc[r].info.EmailAddress
                 /\ v.full_name = IF loc[r].info.Name = ""
                                  THEN u.full_name ELSE loc[r].info.Name
                 /\ v.last_login_at \in { Some(t) : t \in 0..now }]_vars

\* C30 happens: a login of a known identity that carries no email and no
\* name has committed, and the row has kept its email and its name.
C30_Witness ==
    /\ last.op = "callback" /\ last.exit = "auth.py:100"
    /\ last.info.EmailAddress = None /\ last.info.Name = ""
    /\ \E u \in users :
         /\ u.brightspace_user_id = last.info.Identifier
         /\ u.email = "e1" /\ u.full_name = "n1"
         /\ u.last_login_at # NoneT

\* The finished request `l` is a status request whose refresh call failed.
RefreshFailed(l) == l.op = "status" /\ l.exit = "auth_service.py:277"

\* C31: the step in which a refresh call fails changes no token row, and
\* the next get-valid-token call for that user, no login having run in
\* between, loads the same record and makes a refresh call with the same
\* refresh token.
C31_FailedRefreshLeavesRow ==
    [][/\ \A r \in Req :
            (pc[r] = "gvt_refresh" /\ Steps(r) /\ pc'[r] = "idle")
            => /\ RefreshFailed(last')
               /\ tokens' = tokens
               /\ \A i \in TokenRowsOf(loc[r].sub) : tokens'[i] = loc[r].rec
       /\ (RefreshFailed(last) /\ last' # last /\ last'.op = "status"
           /\ last'.sub = last.sub)
          => /\ last'.calls.refresh = 1
             /\ last'.rec = last.rec
             /\ last'.rec.refresh_token \in RefreshTokens]_vars

\* C31 happens: the refresh call of a status request has failed, and the
\* next status request of that user has loaded the same record and is
\* waiting for its own refresh call.
C31_Witness ==
    /\ RefreshFailed(last)
    /\ \E r \in Req :
         /\ pc[r] = "gvt_refresh" /\ loc[r].sub = last.sub
         /\ loc[r].rec = last.rec /\ loc[r].calls.refresh = 1

\* C32: the commit of a refresh stores the response's refresh token, also
\* when the response has none; and a get-valid-token call that finds a
\* record without refresh token expired makes no provider call and returns
\* none.
C32_RefreshTokenOverwritten ==
    [][\A r \in Req :
         /\ (pc[r] = "gvt_commit" /\ Steps(r))
            => \A i \in TokenRowsOf(loc[r].sub) :
                 /\ tokens'[i].refresh_token = loc[r].token_data.refresh_token
                 /\ tokens'[i].access_token = loc[r].token_data.access_token
         /\ (/\ pc[r] = "gvt_select" /\ Steps(r)
             /\ \A i \in TokenRowsOf(loc[r].sub) :
                  /\ tokens[i].refresh_token = None
                  /\ tokens[i].expires_at # NoneT /\ now >= Val(tokens[i].expires_at)
             /\ TokenRowsOf(loc[r].sub) # {})
            => pc'[r] = "gvt_elif" /\ loc'[r].calls = NoCalls
         /\ (/\ pc[r] = "gvt_elif" /\ Steps(r)
             /\ loc[r].rec.refresh_token = None
             /\ loc[r].rec.expires_at # NoneT /\ now >= Val(loc[r].rec.expires_at))
            => /\ last'.ret = None /\ last'.calls = NoCalls
               /\ ~last'.resp.brightspace_connected]_vars

\* C32 happens: a refresh was answered without refresh token, the new
\* access token was stored without one and has expired, and a status
\* request has returned none without a provider call.
C32_Witness ==
    /\ last.op = "status" /\ last.exit = "auth_service.py:282"
    /\ last.rec.access_token = "at2" /\ last.rec.refresh_token = None
    /\ last.ret = None /\ last.calls = NoCalls

\* C33: a commit stores no expiry exactly when the token response has no
\* expires_in or expires_in = 0; a get-valid-token call that loads a record
\* without expiry makes no refresh call, changes no row and returns the
\* record's access token, at any time.
C33_NoExpiryNeverExpires ==
    [][\A r \in Req :
         /\ (pc[r] = "gvt_commit" /\ Steps(r))
            => \A i \in TokenRowsOf(loc[r].sub) :
                 (tokens'[i].expires_at = NoneT)
                 <=> (loc[r].token_data.expires_in \in {NoneT, Some(0)})
         /\ (pc[r] = "cb_commit" /\ pc'[r] = "cb_refresh")
            => \A i \in TokenRowsOf(loc'[r].user.id) :
                 (tokens'[i].expires_at = NoneT)
                 <=> (loc[r].token_data.expires_in \in {NoneT, Some(0)})
         /\ (/\ pc[r] = "gvt_select" /\ Steps(r)
             /\ Cardinality(TokenRowsOf(loc[r].sub)) = 1
             /\ \A i \in TokenRowsOf(loc[r].sub) : tokens[i].expires_at = NoneT)
            => /\ pc'[r] = "gvt_elif" /\ loc'[r].calls = NoCalls
               /\ tokens' = tokens
         /\ (pc[r] = "gvt_elif" /\ Steps(r) /\ loc[r].rec.expires_at = NoneT)
            => /\ last'.ret = loc[r].rec.access_token
               /\ last'.calls = NoCalls
               /\ last'.resp.brightspace_connected
               /\ tokens' = tokens]_vars

\* C33 happens: a token stored from a response with expires_in = 0 or
\* without expires_in has no expiry, and a status request at the last
\* second of the clock has returned its access token without a refresh call.
C33_Witness ==
    /\ last.op = "status" /\ last.exit = "auth_service.py:280"
    /\ last.rec.expires_at = NoneT
    /\ last.ret = last.rec.access_token /\ last.calls = NoCalls
    /\ now = MaxTime

\* The positions of a status request inside get_valid_brightspace_token.
InGetValidToken ==
    {"gvt_select", "gvt_elif", "gvt_refresh", "gvt_save_select", "gvt_commit"}

\* C34: /status answers authenticated = true, with the subject of the
\* presented session token as user_id, exactly when that token verifies,
\* whether or not a User row has that id, and then brightspace_connected is
\* true exactly when get-valid-token returned a token; otherwise it answers
\* authenticated = false.
C34_StatusReportsSession ==
    [][/\ \A r \in Req :
            /\ (pc[r] = "idle" /\ pc'[r] = "gvt_select")
               => /\ loc'[r].header.scheme = "Bearer"
                  /\ verify_jwt_token(loc'[r].header.token, now) # <<>>
            /\ (pc[r] \in InGetValidToken /\ pc'[r] = "idle")
               => last'.resp = StatusBody(TRUE, last'.ret # None,
                                          loc[r].header.token.payload.sub)
       /\ (pc' = pc /\ last' # last /\ last'.op = "status")
          => /\ \/ last'.header.scheme # "Bearer"
                \/ verify_jwt_token(last'.header.token, now) = <<>>
             /\ last'.resp = StatusBody(FALSE, FALSE, None)]_vars

\* C35: a callback that is rejected by its parameter checks is answered by
\* the first check that fails, in the order error parameter, missing code
\* or state, unknown state: with the redirect code of that check; it has
\* made no provider call, written no row and left the state cache as it was.
C35_ChecksInOrder ==
    [][(pc' = pc /\ last' # last /\ last'.op = "callback")
       => LET q == last'.query
          IN  /\ last'.resp =
                   IF Truthy(q.error) THEN RedirectTo("/login?error=" \o q.error)
                   ELSE IF ~Truthy(q.code) \/ ~Truthy(q.state)
                   THEN RedirectTo("/login?error=missing_parameters")
                   ELSE RedirectTo("/login?error=invalid_state")
              /\ (Truthy(q.error) \/ ~Truthy(q.code) \/ ~Truthy(q.state))
                 \/ q.state \notin oauth_states
              /\ last'.calls = NoCalls
              /\ users' = users /\ tokens' = tokens /\ oauth_states' = oauth_states]_vars

\* Slots r and o hold two callbacks for one provider identity without a
\* User row when they looked it up, each with its own state, both past the
\* user lookup.
ConcurrentFirstLogins(r, o) ==
    /\ r # o
    /\ pc[r] = "cb_commit" /\ pc[o] \in {"cb_select_token", "cb_commit"}
    /\ loc[r].is_new /\ loc[o].is_new
    /\ loc[r].info.Identifier = loc[o].info.Identifier
    /\ loc[r].state # loc[o].state

\* C36: of two concurrent callbacks for one unknown provider identity at
\* most one commits a User row; the other is answered with the redirect
\* code server_error, has written no User row and no token row, and has
\* made no session token.
C36_ConcurrentFirstLogins ==
    [][\A r, o \in Req :
         (ConcurrentFirstLogins(r, o) /\ Steps(r))
         => /\ Cardinality(RowsOfIdentity(users', str(loc[r].info.Identifier))) <= 1
            /\ \/ pc'[r] = "cb_refresh"
               \/ /\ pc'[r] = "idle"
                  /\ last'.resp = RedirectTo("/login?error=server_error")
                  /\ users' = users /\ tokens' = tokens
                  /\ last'.jwt = MalformedToken("")]_vars

\* C37: no two User rows have the same email and none has no email; a
\* first login whose identity has no email, or the email of a user of
\* another provider identity, writes no User row and no token row and is
\* answered with the redirect code server_error.
C37_EmailUniqueAndPresent ==
    [][/\ \A u, v \in users' : u.email = v.email => u = v
       /\ \A u \in users' : u.email # None
       /\ \A r \in Req :
            (/\ pc[r] = "cb_commit" /\ Steps(r) /\ loc[r].is_new
             /\ \/ loc[r].info.EmailAddress = None
                \/ \E u \in users :
                     /\ u.email = loc[r].info.EmailAddress
                     /\ u.brightspace_user_id # str(loc[r].info.Identifier))
            => /\ pc'[r] = "idle"
               /\ users' = users /\ tokens' = tokens
               /\ last'.resp = RedirectTo("/login?error=server_error")]_vars

\* C38: two logins in sequence whose identities both lack the identifier,
\* by different people, resolve to one User row, keyed on the text of None:
\* after the second, that one row has the second's email and name, and its
\* one token row has the second's tokens.
C38_MissingIdentifierShared ==
    [][\A r \in Req :
         (/\ pc[r] = "cb_commit" /\ Steps(r)
          /\ LastResolvedUser
          /\ last.info.Identifier = None /\ loc[r].info.Identifier = None
          /\ last.info # loc[r].info)
         => /\ Cardinality(RowsOfIdentity(users', NoneAsText)) = 1
            /\ \A u \in RowsOfIdentity(users', NoneAsText) :
                 /\ u.email = loc[r].info.EmailAddress
                 /\ u.full_name = loc[r].info.Name
                 /\ Cardinality({ i \in 1..Len(tokens') : tokens'[i].user_id = u.id }) = 1
                 /\ \A i \in 1..Len(tokens') :
                      tokens'[i].user_id = u.id
                      => /\ tokens'[i].access_token = loc[r].token_data.access_token
                         /\ tokens'[i].refresh_token = loc[r].token_data.refresh_token]_vars

====
